---------------------------- MODULE Spec2Model ----------------------------
(***************************************************************************)
(* FreeFinder: the listing acquisition-and-triage pipeline.                *)
(*                                                                         *)
(*   sites/craigslist.py  parse_listings   (search page -> fresh listings) *)
(*   filters.py           filter_items, describe_rejection                 *)
(*   storage/sqlite.py    purge_stale_items, upsert_items                  *)
(*   cli.py               crawl_once       (fetch, triage, store, notify)  *)
(*   cli.py               main             (settings -> one crawl)         *)
(*   fetcher.py           get_html, _sleep_with_jitter                     *)
(*                                                                         *)
(* Python values are represented as follows.                               *)
(*   Optional[X]   None is <<>>, a present x is <<x>>.                     *)
(*   str           a tuple of one-character strings.                       *)
(*   datetime      [t, us]: t counts whole days, us is the sub-second      *)
(*                 part; every datetime of the program is UTC-aware.       *)
(*   isoformat()   a tuple of character codes, compared bytewise as SQLite *)
(*                 compares TEXT.                                          *)
(*   float         [num, scale], the decimal num / 10^scale, normalised.   *)
(***************************************************************************)
EXTENDS Integers, Sequences, FiniteSets, TLC

VARIABLES
  clock,    \* datetime.now(timezone.utc)
  page,     \* the result elements of the search page, in page order
  opts,     \* parse_listings keyword arguments
  ps,       \* parse_listings: the loop's local variables
  fin,      \* filter_items / describe_rejection: the call under test
  db,       \* the committed rows of table items, id -> row
  st,       \* the last storage call: what it was given and what it returned
  cr,       \* crawl_once: its arguments, position and locals
  cf        \* main / _fetch_listing_times: the call under test and its outcome

vars == <<clock, page, opts, ps, fin, db, st, cr, cf>>

---------------------------------------------------------------------------
(* Bounds of the model.                                                    *)

MaxStubs == 3        \* result elements on a search page
MaxCap == 2          \* largest max_items tried
MaxClock == 9        \* last day the clock reaches
MaxMicro == 1        \* largest sub-second part of now()
MaxBatch == 2        \* listings in one upsert_items call
MaxCrawls == 2       \* crawl_once invocations on one database
MaxDelay == 2        \* largest bound of a sleep range, in seconds

---------------------------------------------------------------------------
(* Optional values and strings.                                            *)

None == <<>>
Some(x) == <<x>>
IsNone(o) == o = <<>>
Get(o) == o[1]

Str_FreeMattress == <<"F","r","e","e"," ","M","a","t","t","r","e","s","s">>
Str_BoxesAndMattress ==
  <<"f","r","e","e"," ","m","o","v","i","n","g"," ","b","o","x","e","s",
    " ","a","n","d"," ","m","a","t","t","r","e","s","s">>
Str_FillDirt == <<"f","i","l","l"," ","d","i","r","t">>
Str_OldJunk == <<"o","l","d"," ","j","u","n","k">>
Str_PlusTV == <<"p","l","u","s"," ","T","V">>
Str_North == <<"N","o","r","t","h">>

UpperChars ==
  <<"A","B","C","D","E","F","G","H","I","J","K","L","M",
    "N","O","P","Q","R","S","T","U","V","W","X","Y","Z">>
LowerChars ==
  <<"a","b","c","d","e","f","g","h","i","j","k","l","m",
    "n","o","p","q","r","s","t","u","v","w","x","y","z">>

LowerChar(c) ==
  IF \E k \in 1..Len(UpperChars) : UpperChars[k] = c
  THEN LowerChars[CHOOSE k \in 1..Len(UpperChars) : UpperChars[k] = c]
  ELSE c

DigitChars == <<"0","1","2","3","4","5","6","7","8","9">>
IsDigit(c) == \E k \in 1..10 : DigitChars[k] = c
DigitValue(c) == (CHOOSE k \in 1..10 : DigitChars[k] = c) - 1

\* s contains k as a contiguous substring (Python: k in s)
Contains(s, k) ==
  \E p \in 1..(Len(s) - Len(k) + 1) : SubSeq(s, p, p + Len(k) - 1) = k

---------------------------------------------------------------------------
(* datetime                                                                *)

MaxItemAgeDays == 7

Dt(t, us) == [t |-> t, us |-> us]
DtLess(a, b) == a.t < b.t \/ (a.t = b.t /\ a.us < b.us)
DtGeq(a, b) == ~DtLess(a, b)
DtMinusAge(now) == Dt(now.t - MaxItemAgeDays, now.us)

\* character codes of the characters isoformat() emits around the seconds
CodePlus == 43
CodeDot == 46
CodeZero == 48

\* datetime.isoformat() of a UTC-aware value: the zero-padded fixed-width
\* date-and-time field, ".ffffff" only when the microsecond is not 0, and
\* the offset "+00:00".
isoformat(d) ==
  <<CodeZero + (d.t \div 10), CodeZero + (d.t % 10)>>
    \o (IF d.us = 0 THEN <<>> ELSE <<CodeDot, CodeZero + d.us>>)
    \o <<CodePlus>>

\* SQLite's comparison of two TEXT values (BINARY collation: memcmp, the
\* shorter a prefix of the longer being the smaller)
RECURSIVE TextLess(_, _)
TextLess(a, b) ==
  IF b = <<>> THEN FALSE
  ELSE IF a = <<>> THEN TRUE
  ELSE IF Head(a) # Head(b) THEN Head(a) < Head(b)
  ELSE TextLess(Tail(a), Tail(b))

---------------------------------------------------------------------------
(* models.py                                                               *)

SOURCE_NAME == "craigslist"
REGION == "sanantonio"
DEFAULT_MAX_ITEMS == 120

Item(id, title, url, source, description, location, posted_at, price) ==
  [id |-> id, title |-> title, url |-> url, source |-> source,
   description |-> description, location |-> location,
   posted_at |-> posted_at, price |-> price]

\* Item.as_row: the tuple handed to SQLite; posted_at becomes its ISO text
as_row(item) ==
  [id |-> item.id, title |-> item.title, url |-> item.url,
   source |-> item.source, description |-> item.description,
   location |-> item.location,
   posted_at |-> IF IsNone(item.posted_at) THEN None
                 ELSE Some(isoformat(Get(item.posted_at))),
   price |-> item.price]

---------------------------------------------------------------------------
(* sites/craigslist.py                                                     *)

\* A result element <li> of the search page, as parse_listings reads it:
\*   href        None (no <a>, or no href), else the link target, whose num
\*               is the digits of "/<digits>.html" when the path has them
\*   title, location, price_text   the texts of the link's div children
\*   detail      what fetching the detail page yields: ok = FALSE when
\*               get_html raises, else the two parsed <time> values
Stub(href, title, location, price_text, detail) ==
  [href |-> href, title |-> title, location |-> location,
   price_text |-> price_text, detail |-> detail]

Href(num) == [num |-> num]
DetailError == [ok |-> FALSE, posted_at |-> None, updated_at |-> None]
Detail(p, u) == [ok |-> TRUE, posted_at |-> p, updated_at |-> u]

\* urljoin(f"https://{region}.craigslist.org", href)
urljoin(region, href) == [region |-> region, num |-> href.num]

\* _extract_id: ID_PATTERN.search(url), then "craigslist:<region>:<digits>"
ExtractId(url, region) ==
  IF IsNone(url.num) THEN None
  ELSE Some(<<SOURCE_NAME, region, Get(url.num)>>)

\* re.sub(r"[^\d.]", "", text)
RECURSIVE StripNonDigitDot(_)
StripNonDigitDot(s) ==
  IF s = <<>> THEN <<>>
  ELSE IF IsDigit(Head(s)) \/ Head(s) = "."
       THEN <<Head(s)>> \o StripNonDigitDot(Tail(s))
       ELSE StripNonDigitDot(Tail(s))

CountDots(s) == Cardinality({k \in 1..Len(s) : s[k] = "."})
CountDigits(s) == Cardinality({k \in 1..Len(s) : IsDigit(s[k])})

\* float(digits) accepts a text of digits and dots only when it holds at
\* most one dot and at least one digit; otherwise it raises ValueError
FloatParses(digits) == CountDots(digits) <= 1 /\ CountDigits(digits) >= 1

RECURSIVE DecimalValue(_, _)
DecimalValue(s, acc) ==
  IF s = <<>> THEN acc
  ELSE IF Head(s) = "." THEN DecimalValue(Tail(s), acc)
  ELSE DecimalValue(Tail(s), 10 * acc + DigitValue(Head(s)))

RECURSIVE Normalised(_)
Normalised(f) ==
  IF f.scale > 0 /\ f.num % 10 = 0
  THEN Normalised([num |-> f.num \div 10, scale |-> f.scale - 1])
  ELSE f

FractionDigits(s) ==
  IF CountDots(s) = 0 THEN 0
  ELSE Len(s) - (CHOOSE k \in 1..Len(s) : s[k] = ".")

\* the value of float(digits), for a text float() accepts
FloatOf(digits) ==
  Normalised([num |-> DecimalValue(digits, 0), scale |-> FractionDigits(digits)])

\* parse_listings, lines 127-131: [raised, price]
ParsePrice(price_text) ==
  IF IsNone(price_text) THEN [raised |-> FALSE, price |-> None]
  ELSE LET digits == StripNonDigitDot(Get(price_text))
       IN IF digits = <<>> THEN [raised |-> FALSE, price |-> None]
          ELSE IF FloatParses(digits)
               THEN [raised |-> FALSE, price |-> Some(FloatOf(digits))]
               ELSE [raised |-> TRUE, price |-> None]

\* (mutation of FetchListingTimes: a failed fetch yields the earliest time)
FetchListingTimes_EpochOnError(stub) ==
  IF stub.detail.ok
  THEN [posted_at |-> stub.detail.posted_at, updated_at |-> stub.detail.updated_at]
  ELSE [posted_at |-> Some(Dt(0, 0)), updated_at |-> None]

\* _fetch_listing_times: any exception of get_html yields (None, None)
FetchListingTimes(stub) ==
  IF stub.detail.ok
  THEN [posted_at |-> stub.detail.posted_at, updated_at |-> stub.detail.updated_at]
  ELSE [posted_at |-> None, updated_at |-> None]

\* (mutation of ReferenceTime: an updated time always replaces the posted one)
ReferenceTime_UpdatedWins(times) ==
  IF IsNone(times.updated_at) THEN times.posted_at ELSE times.updated_at

\* parse_listings, lines 134-141: the latest of posted and updated
ReferenceTime(times) ==
  LET r1 == IF IsNone(times.posted_at) THEN None ELSE times.posted_at
  IN IF IsNone(times.updated_at) THEN r1
     ELSE IF IsNone(r1) \/ DtLess(Get(r1), Get(times.updated_at))
          THEN times.updated_at
          ELSE r1

\* (mutation of IsBelowCutoff: the comparison drops the sub-second part)
IsBelowCutoff_DayOnly(reference_time, stale_cutoff) ==
  reference_time.t < stale_cutoff.t

\* reference_time < stale_cutoff
IsBelowCutoff(reference_time, stale_cutoff) == DtLess(reference_time, stale_cutoff)

StaleTrigger(title, url, reference_time) ==
  [title |-> title, url |-> url, reference |-> isoformat(reference_time)]

\* the locals of parse_listings before its loop; i is the loop's position,
\* fetched the positions whose detail page was requested, status the
\* function's outcome so far
ParseStart(now) ==
  [i |-> 1, items |-> <<>>, stale_trigger |-> None, fetched |-> <<>>,
   stale_cutoff |-> DtMinusAge(now), status |-> "scanning"]

\* (mutation of AfterStale: the break is missing)
AfterStale_NeverStops(s, stop_at_stale) == [s EXCEPT !.i = @ + 1]

\* if stop_at_stale: break / continue, after a below-cutoff reference time
AfterStale(s, stop_at_stale) ==
  IF stop_at_stale THEN [s EXCEPT !.status = "returned"]
  ELSE [s EXCEPT !.i = @ + 1]

\* (mutation of StalenessGate: a missing reference time ends or continues
\* the loop the way a stale one does)
StalenessGate_AbsentHalts(s, title, url, reference_time, stop_at_stale) ==
  IF IsNone(reference_time) THEN [emit |-> FALSE, s |-> AfterStale(s, stop_at_stale)]
  ELSE IF IsBelowCutoff(Get(reference_time), s.stale_cutoff)
       THEN [emit |-> FALSE,
             s |-> AfterStale(
                     IF IsNone(s.stale_trigger)
                     THEN [s EXCEPT !.stale_trigger =
                             Some(StaleTrigger(title, url, Get(reference_time)))]
                     ELSE s,
                     stop_at_stale)]
       ELSE [emit |-> TRUE, s |-> s]

\* (mutation of StalenessGate: every stale result overwrites stale_trigger)
StalenessGate_LastWins(s, title, url, reference_time, stop_at_stale) ==
  IF IsNone(reference_time) THEN [emit |-> FALSE, s |-> [s EXCEPT !.i = @ + 1]]
  ELSE IF DtLess(Get(reference_time), s.stale_cutoff)
       THEN [emit |-> FALSE,
             s |-> IF stop_at_stale
                   THEN [s EXCEPT !.status = "returned",
                           !.stale_trigger =
                             Some([title |-> title, url |-> url,
                                   reference |-> isoformat(Get(reference_time))])]
                   ELSE [s EXCEPT !.i = @ + 1,
                           !.stale_trigger =
                             Some([title |-> title, url |-> url,
                                   reference |-> isoformat(Get(reference_time))])]]
       ELSE [emit |-> TRUE, s |-> s]

\* lines 144-156: the gate on the reference time; emit tells whether the
\* loop body goes on to build the Item
StalenessGate(s, title, url, reference_time, stop_at_stale) ==
  IF IsNone(reference_time) THEN [emit |-> FALSE, s |-> [s EXCEPT !.i = @ + 1]]
  ELSE IF IsBelowCutoff(Get(reference_time), s.stale_cutoff)
       THEN [emit |-> FALSE,
             s |-> AfterStale(
                     IF IsNone(s.stale_trigger)
                     THEN [s EXCEPT !.stale_trigger =
                             Some(StaleTrigger(title, url, Get(reference_time)))]
                     ELSE s,
                     stop_at_stale)]
       ELSE [emit |-> TRUE, s |-> s]

\* (mutation of Emit: the cap is tested with > instead of >=)
Emit_CapOffByOne(s, item, max_items) ==
  LET items == Append(s.items, item)
  IN IF max_items # 0 /\ Len(items) > max_items
     THEN [s EXCEPT !.items = items, !.status = "returned"]
     ELSE [s EXCEPT !.items = items, !.i = @ + 1]

\* lines 168-170: append, then the max_items cap (0 stands for None or 0)
Emit(s, item, max_items) ==
  LET items == Append(s.items, item)
  IN IF max_items # 0 /\ Len(items) >= max_items
     THEN [s EXCEPT !.items = items, !.status = "returned"]
     ELSE [s EXCEPT !.items = items, !.i = @ + 1]

\* (mutation of LoopBody: the detail page is requested before the id is
\* looked for)
LoopBody_FetchesBeforeId(s, stub, region, o) ==
  IF IsNone(stub.href) THEN [s EXCEPT !.i = @ + 1]
  ELSE
    LET url == urljoin(region, Get(stub.href))
        item_id == ExtractId(url, region)
    IN IF IsNone(item_id) THEN [s EXCEPT !.i = @ + 1, !.fetched = Append(@, s.i)]
       ELSE
         LET pr == ParsePrice(stub.price_text)
         IN IF pr.raised THEN [s EXCEPT !.status = "raised"]
            ELSE
              LET s1 == [s EXCEPT !.fetched = Append(@, s.i)]
                  reference_time == ReferenceTime(FetchListingTimes(stub))
                  g == StalenessGate(s1, stub.title, url, reference_time,
                                     o.stop_at_stale)
              IN IF ~g.emit THEN g.s
                 ELSE Emit(g.s,
                           Item(Get(item_id), stub.title, url, SOURCE_NAME, None,
                                stub.location, reference_time, pr.price),
                           o.max_items)

\* one pass of the loop body, lines 110-170, on the result at position s.i
LoopBody(s, stub, region, o) ==
  IF IsNone(stub.href) THEN [s EXCEPT !.i = @ + 1]
  ELSE
    LET url == urljoin(region, Get(stub.href))
        item_id == ExtractId(url, region)
    IN IF IsNone(item_id) THEN [s EXCEPT !.i = @ + 1]
       ELSE
         LET pr == ParsePrice(stub.price_text)
         IN IF pr.raised THEN [s EXCEPT !.status = "raised"]
            ELSE
              LET s1 == [s EXCEPT !.fetched = Append(@, s.i)]
                  reference_time == ReferenceTime(FetchListingTimes(stub))
                  g == StalenessGate(s1, stub.title, url, reference_time,
                                     o.stop_at_stale)
              IN IF ~g.emit THEN g.s
                 ELSE Emit(g.s,
                           Item(Get(item_id), stub.title, url, SOURCE_NAME, None,
                                stub.location, reference_time, pr.price),
                           o.max_items)

\* the for statement: the next result, or the return after the last one
ParseIter(s, results, region, o) ==
  IF s.i > Len(results) THEN [s EXCEPT !.status = "returned"]
  ELSE LoopBody(s, results[s.i], region, o)

RECURSIVE ParseRun(_, _, _, _)
ParseRun(s, results, region, o) ==
  IF s.status # "scanning" THEN s
  ELSE ParseRun(ParseIter(s, results, region, o), results, region, o)

\* parse_listings as a whole
parse_listings(results, region, now, o) ==
  ParseRun(ParseStart(now), results, region, o)

---------------------------------------------------------------------------
(* filters.py                                                              *)

INCLUDE_KEYWORDS ==
  << <<"e","l","e","c","t","r","o","n","i","c","s">>,
     <<"x","b","o","x"," ","s","e","r","i","e","s"," ","x">>,
     <<"s","e","r","i","e","s"," ","x">>,
     <<"x","b","o","x">>,
     <<"n","i","n","t","e","n","d","o"," ","s","w","i","t","c","h">>,
     <<"s","w","i","t","c","h">>,
     <<"c","o","n","s","o","l","e">>,
     <<"p","l","a","y","s","t","a","t","i","o","n">>,
     <<"p","s","5">>,
     <<"t","a","b","l","e","t">>,
     <<"l","a","p","t","o","p">>,
     <<"c","o","m","p","u","t","e","r">>,
     <<"t","v">>,
     <<"t","e","l","e","v","i","s","i","o","n">>,
     <<"m","o","n","i","t","o","r">>,
     <<"p","r","i","n","t","e","r">>,
     <<"m","a","t","t","r","e","s","s">>,
     <<"b","e","d">>,
     <<"b","u","n","k"," ","b","e","d">>,
     <<"c","r","i","b">>,
     <<"b","a","s","s","i","n","e","t">>,
     <<"s","o","f","a">>,
     <<"c","o","u","c","h">>,
     <<"f","u","t","o","n">>,
     <<"t","a","b","l","e">>,
     <<"c","h","a","i","r">>,
     <<"d","r","e","s","s","e","r">>,
     <<"s","h","e","l","v","e","s">>,
     <<"t","w","i","n"," ","b","e","d">>,
     <<"q","u","e","e","n"," ","b","e","d">>,
     <<"g","a","r","d","e","n">>,
     <<"g","a","r","d","e","n","i","n","g">>,
     <<"p","l","a","n","t","e","r">>,
     <<"r","a","i","s","e","d"," ","b","e","d">>,
     <<"m","u","l","c","h">>,
     <<"c","o","m","p","o","s","t"," ","b","i","n">>,
     <<"p","l","a","n","t">>,
     <<"p","l","a","n","t","s">>,
     <<"s","e","e","d">>,
     <<"s","e","e","d","s">>,
     <<"s","o","i","l">>,
     <<"g","r","e","e","n","h","o","u","s","e">>,
     <<"i","r","r","i","g","a","t","i","o","n">>,
     <<"h","o","s","e">>,
     <<"s","h","o","v","e","l">>,
     <<"r","a","k","e">>,
     <<"w","h","e","e","l","b","a","r","r","o","w">> >>

EXCLUDE_KEYWORDS ==
  << <<"m","o","v","i","n","g"," ","b","o","x","e","s">>,
     <<"m","o","v","i","n","g"," ","b","o","x">>,
     <<"f","r","e","e"," ","b","o","x","e","s">>,
     <<"c","a","r","d","b","o","a","r","d"," ","b","o","x","e","s">>,
     <<"d","i","r","t">>,
     <<"f","i","l","l"," ","d","i","r","t">>,
     <<"m","a","n","u","r","e">> >>

RECURSIVE normalize(_)
normalize(text) ==
  IF text = <<>> THEN <<>>
  ELSE <<LowerChar(Head(text))>> \o normalize(Tail(text))

\* _find_matches: the keywords found in the lowered text, in table order
FindMatches(text, keywords) ==
  LET normalized == normalize(text)
  IN SelectSeq(keywords, LAMBDA keyword : Contains(normalized, keyword))

\* posted_at >= now - MAX_ITEM_AGE, False without a posted_at
is_recent(item, now) ==
  IF IsNone(item.posted_at) THEN FALSE
  ELSE DtGeq(Get(item.posted_at), DtMinusAge(now))

\* f"{item.title} {item.description or ''}"
ItemText(item) ==
  item.title \o <<" ">> \o
    (IF IsNone(item.description) THEN <<>> ELSE Get(item.description))

evaluate_item(item) ==
  [item |-> item,
   matched_keywords |-> FindMatches(ItemText(item), INCLUDE_KEYWORDS),
   excluded_keywords |-> FindMatches(ItemText(item), EXCLUDE_KEYWORDS)]

\* (mutation of KeywordsReject: an include match outweighs an exclusion)
KeywordsReject_IncludeWins(outcome) == outcome.matched_keywords = <<>>

\* the test of filter_items, line 134, on a recent item's outcome
KeywordsReject(outcome) ==
  outcome.excluded_keywords # <<>> \/ outcome.matched_keywords = <<>>

\* (mutation of FilterOne: a stale item is passed over without an outcome)
FilterOne_StaleVanish(kd, item, now) ==
  LET outcome == evaluate_item(item)
  IN IF ~is_recent(item, now)
     THEN kd
     ELSE IF KeywordsReject(outcome)
          THEN [kd EXCEPT !.dropped = Append(@, outcome)]
          ELSE [kd EXCEPT !.kept = Append(@, item)]

\* the loop of filter_items on one item, kd = [kept, dropped]
FilterOne(kd, item, now) ==
  LET outcome == evaluate_item(item)
  IN IF ~is_recent(item, now)
     THEN [kd EXCEPT !.dropped = Append(@, outcome)]
     ELSE IF KeywordsReject(outcome)
          THEN [kd EXCEPT !.dropped = Append(@, outcome)]
          ELSE [kd EXCEPT !.kept = Append(@, item)]

RECURSIVE FilterLoop(_, _, _)
FilterLoop(kd, items, now) ==
  IF items = <<>> THEN kd
  ELSE FilterLoop(FilterOne(kd, Head(items), now), Tail(items), now)

\* filter_items, with the now it reads at line 125
filter_items(items, now) ==
  FilterLoop([kept |-> <<>>, dropped |-> <<>>], items, now)

\* (mutation of describe_rejection: the age of the listing is not looked at)
describe_rejection_IgnoresAge(outcome, now) ==
  IF outcome.excluded_keywords # <<>>
  THEN [kind |-> "excluded keywords", detail |-> outcome.excluded_keywords]
  ELSE IF outcome.matched_keywords = <<>>
       THEN [kind |-> "no matching keywords", detail |-> <<>>]
       ELSE [kind |-> "kept", detail |-> <<>>]

\* (mutation of describe_rejection: the keyword reasons are tried first)
describe_rejection_KeywordsFirst(outcome, now) ==
  IF outcome.excluded_keywords # <<>>
  THEN [kind |-> "excluded keywords", detail |-> outcome.excluded_keywords]
  ELSE IF ~is_recent(outcome.item, now)
       THEN IF IsNone(outcome.item.posted_at)
            THEN [kind |-> "missing posted date", detail |-> <<>>]
            ELSE [kind |-> "posted (older than 7 days)",
                  detail |-> isoformat(Get(outcome.item.posted_at))]
       ELSE IF outcome.matched_keywords = <<>>
            THEN [kind |-> "no matching keywords", detail |-> <<>>]
            ELSE [kind |-> "kept", detail |-> <<>>]

\* describe_rejection: the reason text, as its kind and its variable part
\* (the ISO text of posted_at, or the keywords joined by ", ")
describe_rejection(outcome, now) ==
  IF ~is_recent(outcome.item, now)
  THEN IF IsNone(outcome.item.posted_at)
       THEN [kind |-> "missing posted date", detail |-> <<>>]
       ELSE [kind |-> "posted (older than 7 days)",
             detail |-> isoformat(Get(outcome.item.posted_at))]
  ELSE IF outcome.excluded_keywords # <<>>
       THEN [kind |-> "excluded keywords", detail |-> outcome.excluded_keywords]
       ELSE IF outcome.matched_keywords = <<>>
            THEN [kind |-> "no matching keywords", detail |-> <<>>]
            ELSE [kind |-> "kept", detail |-> <<>>]

---------------------------------------------------------------------------
(* storage/sqlite.py                                                       *)

\* The table is a function from the ids present to their rows.  A row holds
\* the eight columns written by upsert_items and created_at, the column
\* default datetime('now') taken when the row is first inserted.

StoredRow(row, created_at) ==
  [id |-> row.id, title |-> row.title, url |-> row.url, source |-> row.source,
   description |-> row.description, location |-> row.location,
   posted_at |-> row.posted_at, price |-> row.price, created_at |-> created_at]

\* (mutation of UpsertRow: INSERT OR IGNORE, the stored row wins a conflict)
UpsertRow_InsertOrIgnore(table, row, now) ==
  IF row.id \in DOMAIN table THEN table
  ELSE [k \in DOMAIN table \cup {row.id} |->
          IF k = row.id
          THEN [id |-> row.id, title |-> row.title, url |-> row.url,
                source |-> row.source, description |-> row.description,
                location |-> row.location, posted_at |-> row.posted_at,
                price |-> row.price, created_at |-> now.t]
          ELSE table[k]]

\* (mutation of UpsertRow: price=COALESCE(excluded.price, price), a merge)
UpsertRow_CoalescePrice(table, row, now) ==
  IF row.id \in DOMAIN table
  THEN [table EXCEPT ![row.id] =
          [id |-> row.id, title |-> row.title, url |-> row.url,
           source |-> row.source, description |-> row.description,
           location |-> row.location, posted_at |-> row.posted_at,
           price |-> IF row.price = <<>> THEN table[row.id].price ELSE row.price,
           created_at |-> table[row.id].created_at]]
  ELSE [k \in DOMAIN table \cup {row.id} |->
          IF k = row.id
          THEN [id |-> row.id, title |-> row.title, url |-> row.url,
                source |-> row.source, description |-> row.description,
                location |-> row.location, posted_at |-> row.posted_at,
                price |-> row.price, created_at |-> now.t]
          ELSE table[k]]

\* INSERT ... ON CONFLICT(id) DO UPDATE SET <every column but created_at>
UpsertRow(table, row, now) ==
  IF row.id \in DOMAIN table
  THEN [table EXCEPT ![row.id] = StoredRow(row, table[row.id].created_at)]
  ELSE [k \in DOMAIN table \cup {row.id} |->
          IF k = row.id THEN StoredRow(row, now.t) ELSE table[k]]

\* (mutation of ExecuteMany: execute in place of executemany, one row written)
ExecuteMany_FirstRowOnly(table, rows, k, fail_at, nows) ==
  IF k > Len(rows) THEN [raised |-> FALSE, table |-> table]
  ELSE IF k = fail_at THEN [raised |-> TRUE, table |-> table]
  ELSE [raised |-> FALSE, table |-> UpsertRow(table, rows[k], nows[k])]

\* executemany inside the open transaction: the rows in order, stopping at
\* row fail_at when the statement raises there (0: no row raises).  The
\* INSERT runs once per row and evaluates the default datetime('now') each
\* time: nows[k] is the clock while row k is written
RECURSIVE ExecuteMany(_, _, _, _, _)
ExecuteMany(table, rows, k, fail_at, nows) ==
  IF k > Len(rows) THEN [raised |-> FALSE, table |-> table]
  ELSE IF k = fail_at THEN [raised |-> TRUE, table |-> table]
  ELSE ExecuteMany(UpsertRow(table, rows[k], nows[k]), rows, k + 1, fail_at, nows)

\* (mutation of WithConnection: no rollback, the rows written stay)
WithConnection_NoRollback(committed, tx) == tx.table

\* "with connection:" commits on a normal exit and rolls back on an exception
WithConnection(committed, tx) ==
  IF tx.raised THEN committed ELSE tx.table

\* upsert_items: [raised, ret, table]; nows holds one clock value per row
upsert_items(table, items, fail_at, nows) ==
  LET rows == [k \in 1..Len(items) |-> as_row(items[k])]
  IN IF rows = <<>> THEN [raised |-> FALSE, ret |-> 0, table |-> table]
     ELSE LET tx == ExecuteMany(table, rows, 1, fail_at, nows)
          IN [raised |-> tx.raised,
              ret |-> IF tx.raised THEN 0 ELSE Len(rows),
              table |-> WithConnection(table, tx)]

\* (mutation of PurgeMatches: the IS NULL test is missing)
PurgeMatches_NoNull(row, threshold_iso) ==
  row.posted_at # <<>> /\ TextLess(row.posted_at[1], threshold_iso)

\* WHERE posted_at IS NULL OR posted_at < ?
PurgeMatches(row, threshold_iso) ==
  IsNone(row.posted_at) \/ TextLess(Get(row.posted_at), threshold_iso)

\* purge_stale_items: [raised, ret, table]; fails is the DELETE raising
purge_stale_items(table, now, fails) ==
  LET threshold_iso == isoformat(DtMinusAge(now))
      gone == {k \in DOMAIN table : PurgeMatches(table[k], threshold_iso)}
  IN IF fails THEN [raised |-> TRUE, ret |-> 0, table |-> table]
     ELSE [raised |-> FALSE, ret |-> Cardinality(gone),
           table |-> [k \in DOMAIN table \ gone |-> table[k]]]

---------------------------------------------------------------------------
(* Inputs of the model.                                                    *)

\* The clock starts one day past the age limit, so that the cutoff
\* now - MAX_ITEM_AGE falls on day EdgeDay.
StartDay == MaxItemAgeDays + 1
EdgeDay == StartDay - MaxItemAgeDays
Micros == 0..MaxMicro
StartClocks == {Dt(StartDay, us) : us \in Micros}
\* a call that reads the clock once: on the second, and past it
CallClocks == {Dt(StartDay, 0), Dt(StartDay, MaxMicro)}

\* detail pages carry whole seconds: the cutoff day itself (fresh or stale
\* by the sub-second part of now) and the day after
StampEdge == Dt(EdgeDay, 0)
StampFresh == Dt(EdgeDay + 1, 0)

Str_Price0 == <<"$","0">>
Str_PriceFree == <<"f","r","e","e">>
Str_PriceTwoDots == <<"$","1",".","5",".","0">>

\* the kinds of result element a page of the parse model is made of
ParseKinds ==
  { [link |-> "none", title |-> Str_OldJunk, location |-> None,
     price_text |-> None, detail |-> DetailError],
    [link |-> "noid", title |-> Str_OldJunk, location |-> None,
     price_text |-> None, detail |-> DetailError],
    [link |-> "ok", title |-> Str_FreeMattress, location |-> None,
     price_text |-> Some(Str_PriceTwoDots), detail |-> Detail(Some(StampFresh), None)],
    [link |-> "ok", title |-> Str_OldJunk, location |-> None,
     price_text |-> None, detail |-> DetailError],
    [link |-> "ok", title |-> Str_OldJunk, location |-> None,
     price_text |-> None, detail |-> Detail(None, None)],
    [link |-> "ok", title |-> Str_FillDirt, location |-> None,
     price_text |-> None, detail |-> Detail(Some(StampEdge), None)],
    [link |-> "ok", title |-> Str_FillDirt, location |-> None,
     price_text |-> None, detail |-> Detail(None, Some(StampEdge))],
    [link |-> "ok", title |-> Str_BoxesAndMattress, location |-> None,
     price_text |-> Some(Str_PriceFree), detail |-> Detail(Some(StampEdge), Some(StampFresh))],
    [link |-> "ok", title |-> Str_FreeMattress, location |-> Some(Str_North),
     price_text |-> Some(Str_Price0), detail |-> Detail(Some(StampFresh), Some(StampEdge))] }

\* the result element of kind k at position pos; its link, when it has a
\* numeric id, is "/zip/<pos>.html"
StubAt(k, pos) ==
  Stub(IF k.link = "none" THEN None
       ELSE IF k.link = "noid" THEN Some(Href(None))
       ELSE Some(Href(Some(pos))),
       k.title, k.location, k.price_text, k.detail)

PagesOf(kinds, maxlen) ==
  UNION { { [pos \in 1..n |-> StubAt(f[pos], pos)] : f \in [1..n -> kinds] }
          : n \in 0..maxlen }

ParseOpts == [max_items : 0..MaxCap, stop_at_stale : BOOLEAN]

IdlePage == <<>>
\* the keyword defaults of parse_listings
IdleOpts == [max_items |-> DEFAULT_MAX_ITEMS, stop_at_stale |-> TRUE]
IdleParse == [i |-> 1, items |-> <<>>, stale_trigger |-> None, fetched |-> <<>>,
              stale_cutoff |-> Dt(EdgeDay, 0), status |-> "idle"]
IdleFilter == [phase |-> "idle", items |-> <<>>, now |-> Dt(StartDay, 0),
               kept |-> <<>>, dropped |-> <<>>, reasons |-> <<>>,
               described_at |-> <<>>]
EmptyTable == <<>>
IdleStore == [op |-> "none", arg |-> <<>>, fail_at |-> 0, pre |-> EmptyTable,
              ret |-> 0, raised |-> FALSE, repeat |-> FALSE, now |-> Dt(StartDay, 0)]

Channels == <<"slack", "sms", "email", "ntfy">>

\* the locals of crawl_once at its entry
CrawlEntry(n) ==
  [pc |-> "robots", n |-> n, error |-> "none",
   stop_at_stale |-> TRUE, max_items |-> 0, dry_run |-> FALSE,
   webhook |-> FALSE, sms_config |-> FALSE, email_config |-> FALSE,
   ntfy_topic |-> FALSE,
   searched |-> FALSE, details |-> 0,
   items |-> <<>>, stale_trigger |-> None, kept |-> <<>>, dropped |-> <<>>,
   reasons |-> <<>>,
   opened |-> FALSE, purged |-> FALSE, upserted |-> FALSE, inserted |-> 0,
   committed |-> None, new_rows |-> 0,
   attempted |-> <<>>, failed |-> {}]

NoCrawl == [CrawlEntry(0) EXCEPT !.pc = "idle"]

\* crawl_once is not running
IdleCrawl == [NoCrawl EXCEPT !.pc = "off"]

\* neither main nor the detail resolver has been called
IdleConfig == [pc |-> "idle", call |-> None, out |-> None]

\* the clock moves forward: the sub-second part, then the day
TickSub == clock.us < MaxMicro /\ clock' = Dt(clock.t, clock.us + 1)
TickDay == clock.t < MaxClock /\ clock' = Dt(clock.t + 1, 0)

\* SQLite's datetime('now') gives whole seconds: a read of it while the
\* clock is at d gives d without its sub-second part
WholeSeconds(d) == Dt(d.t, 0)

\* what n successive reads of datetime('now') can give from the clock value
\* from on: the clock never goes back
ClockRuns(from, n) ==
  { s \in [1..n -> {Dt(t, 0) : t \in from.t..MaxClock}] :
      \A k \in 1..n : DtGeq(s[k], IF k = 1 THEN WholeSeconds(from) ELSE s[k - 1]) }

\* the rows executemany writes when row fail_at raises (0: none raises)
RowsWritten(n, fail_at) == IF fail_at = 0 THEN n ELSE fail_at - 1

\* the clock after these reads: not before the last of them
LastRead(from, nows) ==
  IF nows = <<>> \/ DtGeq(from, nows[Len(nows)]) THEN from ELSE nows[Len(nows)]

---------------------------------------------------------------------------
(* SpecParse: one call of parse_listings, one loop pass per step.          *)

InitParse ==
  /\ clock \in CallClocks
  /\ page \in PagesOf(ParseKinds, MaxStubs)
  /\ opts \in ParseOpts
  /\ ps = ParseStart(clock)
  /\ fin = IdleFilter /\ db = EmptyTable /\ st = IdleStore /\ cr = IdleCrawl /\ cf = IdleConfig

ParseStep ==
  /\ ps.status = "scanning"
  /\ ps' = ParseIter(ps, page, REGION, opts)
  /\ UNCHANGED <<clock, page, opts, fin, db, st, cr, cf>>

NextParse == ParseStep

SpecParse == InitParse /\ [][NextParse]_vars

---------------------------------------------------------------------------
(* SpecFilter: filter_items on a list of items, then describe_rejection on *)
(* each outcome it dropped, as the dry run of crawl_once does, the clock   *)
(* moving between any two of these calls.                                  *)

FilterTitles == {Str_FreeMattress, Str_BoxesAndMattress, Str_FillDirt, Str_OldJunk}
FilterStamps == {None, Some(StampEdge), Some(StampFresh)}

\* title and description: each title alone, and one with a description
\* that brings the only include keyword
FilterTexts ==
  { <<title, None>> : title \in FilterTitles } \cup { <<Str_OldJunk, Some(Str_PlusTV)>> }

FilterItems ==
  { Item(<<SOURCE_NAME, REGION, 1>>, td[1], urljoin(REGION, Href(Some(1))),
         SOURCE_NAME, td[2], None, posted_at, None) :
      td \in FilterTexts, posted_at \in FilterStamps }

SeqsUpTo(S, maxlen) == UNION { [1..n -> S] : n \in 0..maxlen }

InitFilter ==
  /\ clock \in StartClocks
  /\ fin = IdleFilter
  /\ page = IdlePage /\ opts = IdleOpts /\ ps = IdleParse
  /\ db = EmptyTable /\ st = IdleStore /\ cr = IdleCrawl /\ cf = IdleConfig

FilterCall ==
  /\ fin.phase = "idle"
  /\ \E items \in SeqsUpTo(FilterItems, MaxBatch) :
       LET kd == filter_items(items, clock)
       IN fin' = [fin EXCEPT !.phase = "filtered", !.items = items, !.now = clock,
                             !.kept = kd.kept, !.dropped = kd.dropped]
  /\ UNCHANGED <<clock, page, opts, ps, db, st, cr, cf>>

\* crawl_once, lines 89-91, one pass of the loop per step: each
\* describe_rejection reads the clock anew; described_at keeps what it read
DescribeCall ==
  /\ fin.phase = "filtered"
  /\ LET k == Len(fin.reasons) + 1
     IN fin' = IF k > Len(fin.dropped) THEN [fin EXCEPT !.phase = "described"]
               ELSE [fin EXCEPT !.reasons = Append(@, describe_rejection(fin.dropped[k], clock)),
                                !.described_at = Append(@, clock),
                                !.phase = IF k = Len(fin.dropped) THEN "described"
                                          ELSE "filtered"]
  /\ UNCHANGED <<clock, page, opts, ps, db, st, cr, cf>>

FilterTick ==
  /\ fin.phase = "filtered"
  /\ (TickSub \/ TickDay)
  /\ UNCHANGED <<page, opts, ps, fin, db, st, cr, cf>>

NextFilter == FilterCall \/ DescribeCall \/ FilterTick

SpecFilter == InitFilter /\ [][NextFilter]_vars

---------------------------------------------------------------------------
(* SpecStore: calls of upsert_items and purge_stale_items on one database. *)

Id(n) == <<SOURCE_NAME, REGION, n>>
Zero == [num |-> 0, scale |-> 0]

\* the listings a call may be given, for each of two ids: undated; dated at
\* the cutoff second, with price 0; fresh, without price
StoreItemsOf(n) ==
  { Item(Id(n), Str_OldJunk, urljoin(REGION, Href(Some(n))), SOURCE_NAME,
         None, None, None, None),
    Item(Id(n), Str_FreeMattress, urljoin(REGION, Href(Some(n))), SOURCE_NAME,
         Some(Str_PlusTV), Some(Str_North), Some(StampEdge), Some(Zero)),
    Item(Id(n), Str_FillDirt, urljoin(REGION, Href(Some(n))), SOURCE_NAME,
         None, None, Some(StampFresh), None) }

StoreItems == StoreItemsOf(1) \cup StoreItemsOf(2)

\* the tables upsert_items can have built from these listings on StartDay
StoreTables ==
  UNION { { t \in [ids -> {StoredRow(as_row(item), StartDay) : item \in StoreItems}] :
              \A id \in ids : t[id].id = id }
          : ids \in SUBSET {Id(1), Id(2)} }

InitStore ==
  /\ clock \in StartClocks
  /\ db \in StoreTables
  /\ st = IdleStore
  /\ page = IdlePage /\ opts = IdleOpts /\ ps = IdleParse
  /\ fin = IdleFilter /\ cr = IdleCrawl /\ cf = IdleConfig

\* one call of upsert_items on the table as it stands, the clock moving on
\* from row to row.  A call that follows
\* another upsert_items directly is the re-ingestion of the same listings
\* (every other pair of table and listings starts from the initial table);
\* repeat records that the call before it was that successful upsert_items
UpsertCall ==
  /\ \E items \in SeqsUpTo(StoreItems, MaxBatch), fail_at \in 0..MaxBatch :
       /\ fail_at <= Len(items)
       /\ st.op = "upsert" => items = st.arg
       /\ \E nows \in ClockRuns(clock, RowsWritten(Len(items), fail_at)) :
            LET r == upsert_items(db, items, fail_at, nows)
            IN /\ db' = r.table
               /\ clock' = LastRead(clock, nows)
               /\ st' = [op |-> "upsert", arg |-> items, fail_at |-> fail_at,
                         pre |-> db, ret |-> r.ret, raised |-> r.raised,
                         repeat |-> (st.op = "upsert" /\ ~st.raised /\ st.arg = items),
                         now |-> LastRead(clock, nows)]
  /\ UNCHANGED <<page, opts, ps, fin, cr, cf>>

\* one call of purge_stale_items; repeat records that the call before it
\* was a successful purge at the same instant
PurgeCall ==
  /\ \E fails \in BOOLEAN :
       LET r == purge_stale_items(db, clock, fails)
       IN /\ db' = r.table
          /\ st' = [op |-> "purge", arg |-> <<>>, fail_at |-> IF fails THEN 1 ELSE 0,
                    pre |-> db, ret |-> r.ret, raised |-> r.raised,
                    repeat |-> (st.op = "purge" /\ ~st.raised /\ st.now = clock),
                    now |-> clock]
  /\ UNCHANGED <<clock, page, opts, ps, fin, cr, cf>>

StoreTick ==
  /\ TickSub
  /\ UNCHANGED <<page, opts, ps, fin, db, st, cr, cf>>

NextStore == UpsertCall \/ PurgeCall \/ StoreTick

SpecStore == InitStore /\ [][NextStore]_vars

---------------------------------------------------------------------------
(* SpecCrawl: crawl_once, one step per call it makes, on a database that   *)
(* outlives the crawl.  An argument is drawn when crawl_once first reads   *)
(* it; every call that can raise is given its outcome by the environment.  *)

\* the result elements a page of the crawl model is made of: listing 1 with
\* price 0 and without price (the same listing met by two crawls), and
\* listing 2, which the filter excludes, with a price text float() rejects
\* and without price
CrawlKinds ==
  { [site |-> 1, title |-> Str_FreeMattress, location |-> Some(Str_North),
     price_text |-> Some(Str_Price0), detail |-> Detail(Some(StampFresh), None)],
    [site |-> 1, title |-> Str_FreeMattress, location |-> None,
     price_text |-> None, detail |-> Detail(Some(StampFresh), None)],
    [site |-> 2, title |-> Str_BoxesAndMattress, location |-> None,
     price_text |-> Some(Str_PriceTwoDots), detail |-> Detail(Some(StampFresh), None)],
    [site |-> 2, title |-> Str_BoxesAndMattress, location |-> None,
     price_text |-> None, detail |-> Detail(Some(StampFresh), None)] }

CrawlStub(k) ==
  Stub(Some(Href(Some(k.site))), k.title, k.location, k.price_text, k.detail)

CrawlPages ==
  UNION { { [pos \in 1..n |-> CrawlStub(f[pos])] : f \in [1..n -> CrawlKinds] }
          : n \in 0..(MaxStubs - 1) }

\* an exception leaves crawl_once: nothing in it catches one
Raise(c, kind) == [c EXCEPT !.pc = "raised", !.error = kind]

\* (mutation of PolicyDenied: the refusal is noted and the crawl goes on)
PolicyDenied_Ignored(c) == [c EXCEPT !.pc = "fetch", !.error = "policy"]

\* lines 58-59: can_fetch returned False, RuntimeError
PolicyDenied(c) == Raise(c, "policy")

\* (mutation of SearchFails: a failed search counts as a page without results)
SearchFails_EmptyPage(c) ==
  [c EXCEPT !.searched = TRUE, !.error = "transport", !.pc = "parse"]

\* line 63: get_html raised on the search page; nothing catches it
SearchFails(c) == Raise([c EXCEPT !.searched = TRUE], "transport")

\* (mutation of DryRunBranch: the flag is read but the store is used all the same)
DryRunBranch_Ignored(c, kd, dry) ==
  [c EXCEPT !.kept = kd.kept, !.dropped = <<>>, !.items = <<>>,
            !.stale_trigger = None, !.dry_run = dry, !.pc = "init_db"]

\* lines 80-83: with dry_run the report and the return of lines 84-92
\* follow, else init_db; past the dry-run branch crawl_once reads neither
\* items, dropped nor stale_trigger again, and the model lets them go
DryRunBranch(c, kd, dry) ==
  IF dry
  THEN [c EXCEPT !.kept = kd.kept, !.dropped = kd.dropped,
                 !.dry_run = TRUE, !.pc = "dry"]
  ELSE [c EXCEPT !.kept = kd.kept, !.dropped = <<>>,
                 !.items = <<>>, !.stale_trigger = None,
                 !.dry_run = FALSE, !.pc = "init_db"]

\* (mutation of StorageRaises: the error is swallowed and the crawl goes on)
StorageRaises_Swallowed(c) == [c EXCEPT !.pc = "slack", !.error = "storage"]

\* init_db, purge_stale_items or upsert_items raises
StorageRaises(c) == Raise(c, "storage")

\* line 101: if inserted and (webhook or sms_config or ntfy topic or email_config)
NotifyGuard(c) ==
  c.inserted # 0 /\ (c.webhook \/ c.sms_config \/ c.ntfy_topic \/ c.email_config)

\* (mutation of StoreAfterSend: a failed send undoes the crawl's writes)
StoreAfterSend_RollsBack(table, fails) == IF fails THEN EmptyTable ELSE table

\* lines 101-122 make no storage call, and upsert_items committed before
\* they run: the table is the same after a send, failed or not
StoreAfterSend(table, fails) == table

\* one channel's send call, lines 103-122: skipped when the channel is not
\* configured, else attempted, and its exception, if any, leaves crawl_once
Send(c, channel, configured, fails, next) ==
  IF ~configured THEN [c EXCEPT !.pc = next]
  ELSE IF fails
       THEN Raise([c EXCEPT !.attempted = Append(@, channel),
                            !.failed = @ \cup {channel}], "notify")
       ELSE [c EXCEPT !.attempted = Append(@, channel), !.pc = next]

InitCrawl ==
  /\ clock \in StartClocks
  /\ db = EmptyTable
  /\ cr = NoCrawl /\ cf = IdleConfig
  /\ page = IdlePage /\ opts = IdleOpts /\ ps = IdleParse
  /\ fin = IdleFilter /\ st = IdleStore

CrawlBegin ==
  /\ cr.pc \in {"idle", "done", "raised"}
  /\ cr.n < MaxCrawls
  /\ cr' = CrawlEntry(cr.n + 1)
  /\ page' = IdlePage
  /\ UNCHANGED <<clock, opts, ps, fin, db, st, cf>>

\* lines 57-59
CheckRobots ==
  /\ cr.pc = "robots"
  /\ \E allowed \in BOOLEAN :
       cr' = IF allowed THEN [cr EXCEPT !.pc = "fetch"] ELSE PolicyDenied(cr)
  /\ UNCHANGED <<clock, page, opts, ps, fin, db, st, cf>>

\* line 63: the search page, or the transport error of get_html
FetchSearch ==
  /\ cr.pc = "fetch"
  /\ \/ /\ page' \in CrawlPages
        /\ cr' = [cr EXCEPT !.pc = "parse", !.searched = TRUE]
     \/ /\ page' = page
        /\ cr' = SearchFails(cr)
  /\ UNCHANGED <<clock, opts, ps, fin, db, st, cf>>

\* lines 64-72
ParsePage ==
  /\ cr.pc = "parse"
  /\ \E stop \in BOOLEAN, max_items \in {0, MaxCap} :
       LET o == [max_items |-> IF max_items # 0 THEN max_items ELSE DEFAULT_MAX_ITEMS,
                 stop_at_stale |-> stop]
           r == parse_listings(page, REGION, clock, o)
           c == [cr EXCEPT !.stop_at_stale = stop, !.max_items = max_items,
                           !.details = Len(r.fetched)]
       IN cr' = IF r.status = "raised" THEN Raise(c, "parse")
                ELSE [c EXCEPT !.pc = "filter", !.items = r.items,
                               !.stale_trigger = r.stale_trigger]
  /\ page' = IdlePage
  /\ UNCHANGED <<clock, opts, ps, fin, db, st, cf>>

\* lines 80-83
FilterParsed ==
  /\ cr.pc = "filter"
  /\ \E dry \in BOOLEAN :
       cr' = DryRunBranch(cr, filter_items(cr.items, clock), dry)
  /\ UNCHANGED <<clock, page, opts, ps, fin, db, st, cf>>

\* lines 84-92, one pass of the loop of lines 89-91 per step: each
\* describe_rejection reads the clock anew; the return follows the last
DryRunReport ==
  /\ cr.pc = "dry"
  /\ LET k == Len(cr.reasons) + 1
     IN cr' = IF k > Len(cr.dropped) THEN [cr EXCEPT !.pc = "done"]
              ELSE [cr EXCEPT !.reasons = Append(@, describe_rejection(cr.dropped[k], clock)),
                              !.pc = IF k = Len(cr.dropped) THEN "done" ELSE "dry"]
  /\ UNCHANGED <<clock, page, opts, ps, fin, db, st, cf>>

\* line 94
InitDb ==
  /\ cr.pc = "init_db"
  /\ \E fails \in BOOLEAN :
       cr' = IF fails THEN StorageRaises(cr)
             ELSE [cr EXCEPT !.pc = "purge", !.opened = TRUE]
  /\ UNCHANGED <<clock, page, opts, ps, fin, db, st, cf>>

\* line 95
PurgeStore ==
  /\ cr.pc = "purge"
  /\ \E fails \in BOOLEAN :
       LET r == purge_stale_items(db, clock, fails)
       IN /\ db' = r.table
          /\ cr' = IF r.raised THEN StorageRaises(cr)
                   ELSE [cr EXCEPT !.pc = "upsert", !.purged = TRUE]
  /\ UNCHANGED <<clock, page, opts, ps, fin, st, cf>>

\* lines 98-101
UpsertKept ==
  /\ cr.pc = "upsert"
  /\ \E fail_at \in 0..Len(cr.kept),
        cfg \in [webhook : BOOLEAN, sms_config : BOOLEAN,
                 email_config : BOOLEAN, ntfy_topic : BOOLEAN] :
     \E nows \in ClockRuns(clock, RowsWritten(Len(cr.kept), fail_at)) :
       LET r == upsert_items(db, cr.kept, fail_at, nows)
           c == [cr EXCEPT !.upserted = TRUE, !.inserted = r.ret,
                           !.committed = Some(r.table),
                           !.new_rows = Cardinality({cr.kept[k].id : k \in 1..Len(cr.kept)}
                                                      \ DOMAIN db),
                           !.webhook = cfg.webhook, !.sms_config = cfg.sms_config,
                           !.email_config = cfg.email_config,
                           !.ntfy_topic = cfg.ntfy_topic]
       IN /\ db' = r.table
          /\ clock' = LastRead(clock, nows)
          /\ cr' = IF r.raised THEN StorageRaises(cr)
                   ELSE IF NotifyGuard(c) THEN [c EXCEPT !.pc = "slack"]
                   ELSE [c EXCEPT !.pc = "done"]
  /\ UNCHANGED <<page, opts, ps, fin, st, cf>>

\* lines 103-104
SendSlack ==
  /\ cr.pc = "slack"
  /\ \E fails \in BOOLEAN :
       /\ cr' = Send(cr, "slack", cr.webhook, fails, "sms")
       /\ db' = StoreAfterSend(db, cr.webhook /\ fails)
  /\ UNCHANGED <<clock, page, opts, ps, fin, st, cf>>

\* line 105
SendSms ==
  /\ cr.pc = "sms"
  /\ \E fails \in BOOLEAN :
       /\ cr' = Send(cr, "sms", cr.sms_config, fails, "email")
       /\ db' = StoreAfterSend(db, cr.sms_config /\ fails)
  /\ UNCHANGED <<clock, page, opts, ps, fin, st, cf>>

\* lines 106-111
SendEmail ==
  /\ cr.pc = "email"
  /\ \E fails \in BOOLEAN :
       /\ cr' = Send(cr, "email", cr.email_config, fails, "ntfy")
       /\ db' = StoreAfterSend(db, cr.email_config /\ fails)
  /\ UNCHANGED <<clock, page, opts, ps, fin, st, cf>>

\* lines 112-122
SendNtfy ==
  /\ cr.pc = "ntfy"
  /\ \E fails \in BOOLEAN :
       /\ cr' = Send(cr, "ntfy", cr.ntfy_topic, fails, "done")
       /\ db' = StoreAfterSend(db, cr.ntfy_topic /\ fails)
  /\ UNCHANGED <<clock, page, opts, ps, fin, st, cf>>

\* time passes between any two calls of a crawl, and between crawls
CrawlTick ==
  /\ cr.pc # "idle"
  /\ (TickSub \/ TickDay)
  /\ UNCHANGED <<page, opts, ps, fin, db, st, cr, cf>>

NextCrawl ==
  \/ CrawlBegin \/ CheckRobots \/ FetchSearch \/ ParsePage \/ FilterParsed
  \/ DryRunReport \/ InitDb \/ PurgeStore \/ UpsertKept
  \/ SendSlack \/ SendSms \/ SendEmail \/ SendNtfy \/ CrawlTick

SpecCrawl == InitCrawl /\ [][NextCrawl]_vars


---------------------------------------------------------------------------
(* SpecConfig: one call of _fetch_listing_times with a sleep range, or one *)
(* run of main up to the point where it calls crawl_once.  The steps of    *)
(* crawl_once itself are the actions of SpecCrawl.                         *)

\* Python truth of an Optional[str]: None and "" are false
Truthy(v) == ~IsNone(v) /\ Get(v) # ""

\* Python's `a or b`
OrElse(a, b) == IF Truthy(a) THEN a ELSE b

\* a sleep range in seconds, whole values standing for the floats
SleepPairs == { <<low, high>> : low \in -1..MaxDelay, high \in -1..MaxDelay }

\* an Optional[Sequence[float]] is false when None or empty
RangeTruthy(sleep_range) == ~IsNone(sleep_range) /\ Len(Get(sleep_range)) > 0

\* _sleep_with_jitter, lines 21-25: the check that precedes random.uniform
RangeInvalid(pair) == pair[1] < 0 \/ pair[2] < pair[1]

\* _sleep_with_jitter: no range, no pause; a bad range raises; else the
\* pause is any delay of the range (random.uniform)
sleep_with_jitter(sleep_range) ==
  IF ~RangeTruthy(sleep_range)
  THEN { [raised |-> FALSE, slept |-> None] }
  ELSE LET pair == Get(sleep_range)
       IN IF RangeInvalid(pair)
          THEN { [raised |-> TRUE, slept |-> None] }
          ELSE { [raised |-> FALSE, slept |-> Some(delay)] : delay \in pair[1]..pair[2] }

\* get_html: the pause, then one request; raise_for_status and transport
\* errors raise, as does the pause
get_html(detail, sleep_range) ==
  { IF s.raised
    THEN [raised |-> "ValueError", slept |-> None, requests |-> 0, html |-> None]
    ELSE IF ~detail.ok
         THEN [raised |-> "RequestException", slept |-> s.slept, requests |-> 1,
               html |-> None]
         ELSE [raised |-> "none", slept |-> s.slept, requests |-> 1,
               html |-> Some(detail)] :
    s \in sleep_with_jitter(sleep_range) }

\* _fetch_listing_times with its sleep range: `except Exception` turns every
\* error of get_html into (None, None)
fetch_listing_times(detail, sleep_range) ==
  { [raised |-> FALSE, requests |-> h.requests, slept |-> h.slept,
     times |-> IF h.raised = "none"
               THEN Some([posted_at |-> Get(h.html).posted_at,
                          updated_at |-> Get(h.html).updated_at])
               ELSE Some([posted_at |-> None, updated_at |-> None])] :
    h \in get_html(detail, IF RangeTruthy(sleep_range) THEN sleep_range ELSE None) }

\* the sleep ranges a caller may pass: None, an empty sequence, a pair
SleepRanges == {None, Some(<<>>)} \cup { Some(pair) : pair \in SleepPairs }

\* detail pages: unreachable, without <time>, with one, with both
ConfigDetails ==
  { DetailError, Detail(None, None), Detail(Some(StampFresh), None),
    Detail(Some(StampEdge), Some(StampFresh)) }

\* the four SMS settings: option, and the environment variable behind it
SmsSettings == {"twilio_account", "twilio_token", "sms_from", "sms_to"}

\* a setting is given by presence; its value is the setting's own name
Given(S) == [name \in SmsSettings |-> IF name \in S THEN Some(name) ELSE None]

\* main, lines 248-251: the option, else the environment variable
SmsValues(args, env) == [name \in SmsSettings |-> OrElse(args.sms[name], env[name])]

\* main, lines 252-271: the settings are examined only under a recipient
SmsBlock(values) ==
  IF Truthy(values["sms_to"])
  THEN LET missing == {name \in SmsSettings \ {"sms_to"} : ~Truthy(values[name])}
       IN IF missing # {}
          THEN [raised |-> TRUE, missing |-> missing, sms_config |-> None]
          ELSE [raised |-> FALSE, missing |-> {},
                sms_config |-> Some([name \in SmsSettings |-> Get(values[name])])]
  ELSE [raised |-> FALSE, missing |-> {}, sms_config |-> None]

\* the email settings besides --smtp-use-ssl
EmailSettings ==
  {"email_to", "email_from", "smtp_server", "smtp_port", "smtp_username", "smtp_password"}

\* main, lines 273-303, with no EMAIL_* or SMTP_* variable in the environment
EmailBlock(given) ==
  IF "email_to" \in given
  THEN IF EmailSettings \ given # {}
       THEN [raised |-> TRUE, email_config |-> None]
       ELSE [raised |-> FALSE, email_config |-> Some(EmailSettings)]
  ELSE [raised |-> FALSE, email_config |-> None]

\* main, lines 305-324, with no NTFY_* variable in the environment: argparse
\* admits only priorities 1..5, so the one error left is user with token
NtfyBlock(given) == [raised |-> {"ntfy_user", "ntfy_token"} \subseteq given]

\* main: each check in source order, then the call of crawl_once
main(args, env) ==
  LET detail_sleep_range == args.detail_sleep
      max_items == IF args.max_items # 0 /\ args.max_items > 0
                   THEN args.max_items ELSE DEFAULT_MAX_ITEMS
      sms == SmsBlock(SmsValues(args, env))
      email == EmailBlock(args.email)
      ntfy == NtfyBlock(args.ntfy)
      Stopped(what) == [raised |-> what, crawl_called |-> FALSE, sms_config |-> None,
                      email_config |-> None, max_items |-> 0,
                      detail_sleep_range |-> <<>>]
  IN IF RangeInvalid(detail_sleep_range) THEN Stopped("detail-sleep")
     ELSE IF ~IsNone(args.search_distance) /\ ~Truthy(args.postal)
          THEN Stopped("search-distance")
     ELSE IF sms.raised THEN Stopped("sms")
     ELSE IF email.raised THEN Stopped("email")
     ELSE IF ntfy.raised THEN Stopped("ntfy")
     ELSE [raised |-> "none", crawl_called |-> TRUE, sms_config |-> sms.sms_config,
           email_config |-> email.email_config, max_items |-> max_items,
           detail_sleep_range |-> detail_sleep_range]

\* the environments tried: no SMS variable, the recipient alone, all four
SmsEnvs == { Given({}), Given({"sms_to"}), Given(SmsSettings) }
EmailArgs == { {}, {"email_to"}, EmailSettings }
NtfyArgs == { {}, {"ntfy_token"}, {"ntfy_user", "ntfy_token"} }

MainArgs ==
  [detail_sleep : SleepPairs,
   max_items : {-1, 0, MaxCap},
   search_distance : {None, Some(5)},
   postal : {None, Some("78201")},
   sms : { Given(S) : S \in SUBSET SmsSettings },
   email : EmailArgs,
   ntfy : NtfyArgs]

InitConfig ==
  /\ clock \in StartClocks
  /\ cf = IdleConfig
  /\ page = IdlePage /\ opts = IdleOpts /\ ps = IdleParse
  /\ fin = IdleFilter /\ db = EmptyTable /\ st = IdleStore /\ cr = IdleCrawl

\* parse_listings line 133, seen alone: one detail page, one sleep range
ResolveCall ==
  /\ cf.pc = "idle"
  /\ \E detail \in ConfigDetails, sleep_range \in SleepRanges :
       \E out \in fetch_listing_times(detail, sleep_range) :
         cf' = [pc |-> IF out.raised THEN "raised" ELSE "resolved",
                call |-> Some([op |-> "resolve", detail |-> detail,
                               sleep_range |-> sleep_range]),
                out |-> Some(out)]
  /\ UNCHANGED <<clock, page, opts, ps, fin, db, st, cr>>

\* python -m cli: the settings checked, crawl_once entered or not
MainCall ==
  /\ cf.pc = "idle"
  /\ \E args \in MainArgs, env \in SmsEnvs :
       LET out == main(args, env)
       IN cf' = [pc |-> IF out.crawl_called THEN "crawl" ELSE "raised",
                 call |-> Some([op |-> "main", args |-> args, env |-> env]),
                 out |-> Some(out)]
  /\ UNCHANGED <<clock, page, opts, ps, fin, db, st, cr>>

NextConfig == ResolveCall \/ MainCall

SpecConfig == InitConfig /\ [][NextConfig]_vars
---------------------------------------------------------------------------
(* Properties of parse_listings, stated on the page and the loop's locals. *)

Range(s) == {s[k] : k \in 1..Len(s)}

\* result k has a followable link with a numeric id
StubValid(k) ==
  ~IsNone(page[k].href) /\ ~IsNone(Get(page[k].href).num)

StubUrl(k) == [region |-> REGION, num |-> Get(page[k].href).num]

\* the reference time result k resolves to: None when the fetch fails or
\* the page shows no time, else the later of the two
StubRef(k) ==
  LET d == page[k].detail
  IN IF ~d.ok \/ (IsNone(d.posted_at) /\ IsNone(d.updated_at)) THEN None
     ELSE IF IsNone(d.updated_at) THEN d.posted_at
     ELSE IF IsNone(d.posted_at) THEN d.updated_at
     ELSE IF DtLess(Get(d.posted_at), Get(d.updated_at)) THEN d.updated_at
     ELSE d.posted_at

\* the cutoff now - max_age of the call (the clock of the call's start)
Cutoff == Dt(clock.t - MaxItemAgeDays, clock.us)

StubBelow(k) ==
  StubValid(k) /\ ~IsNone(StubRef(k)) /\ DtLess(Get(StubRef(k)), Cutoff)
StubFresh(k) ==
  StubValid(k) /\ ~IsNone(StubRef(k)) /\ ~DtLess(Get(StubRef(k)), Cutoff)
StubUndated(k) == StubValid(k) /\ IsNone(StubRef(k))

Fetched == Range(ps.fetched)
Emitted(k) == StubValid(k) /\ \E j \in 1..Len(ps.items) : ps.items[j].url = StubUrl(k)
MarkerOf(k) ==
  [title |-> page[k].title, url |-> StubUrl(k),
   reference |-> isoformat(Get(StubRef(k)))]
Parsing == ps.status \in {"scanning", "returned", "raised"}

\* C1: with stop_at_stale, once a result resolves below the cutoff the call
\* has returned, no later result has been fetched or emitted, and the stale
\* marker is present and is that result's, the first below-cutoff result of
\* the page.
C1_StopAtFirstStale ==
  (Parsing /\ opts.stop_at_stale) =>
    \A k \in Fetched :
      StubBelow(k) =>
        /\ ps.status = "returned"
        /\ \A j \in (k + 1)..Len(page) : j \notin Fetched /\ ~Emitted(j)
        /\ \A j \in 1..(k - 1) : ~StubBelow(j)
        /\ ps.stale_trigger = Some(MarkerOf(k))

\* a fresh result was emitted, the second is stale, a third valid fresh
\* result follows and was never fetched
C1_Witness ==
  /\ Parsing /\ opts.stop_at_stale /\ ps.status = "returned"
  /\ Len(page) = 3
  /\ Emitted(1) /\ StubBelow(2) /\ 2 \in Fetched
  /\ StubFresh(3) /\ 3 \notin Fetched
  /\ ps.stale_trigger = Some(MarkerOf(2))

\* C4: every emitted listing has a posted_at that is present and not
\* before the cutoff, and no result without both timestamps is emitted,
\* whatever stop_at_stale is.
C4_EmittedAreFresh ==
  Parsing =>
    /\ \A j \in 1..Len(ps.items) :
         /\ ~IsNone(ps.items[j].posted_at)
         /\ ~DtLess(Get(ps.items[j].posted_at), Cutoff)
    /\ \A k \in 1..Len(page) : StubUndated(k) => ~Emitted(k)

\* an undated result was fetched and skipped, and a result dated exactly at
\* the cutoff was emitted
C4_Witness ==
  /\ Parsing /\ ps.status = "returned"
  /\ \E k \in Fetched : StubUndated(k) /\ page[k].detail.ok /\ ~Emitted(k)
  /\ \E j \in 1..Len(ps.items) : Get(ps.items[j].posted_at) = Cutoff

FirstBelowFetched == CHOOSE k \in Fetched : StubBelow(k) /\ \A j \in Fetched : StubBelow(j) => k <= j

\* C5: without stop_at_stale a below-cutoff result is not emitted and does
\* not end the enumeration (the call returns only at the end of the page or
\* at the max_items cap), and the stale marker is absent while no
\* below-cutoff result was met and otherwise is that of the first one met.
C5_SkipStaleAndContinue ==
  (Parsing /\ ~opts.stop_at_stale) =>
    /\ \A k \in 1..Len(page) : StubBelow(k) => ~Emitted(k)
    /\ ps.status = "returned" =>
         \/ ps.i > Len(page)
         \/ (opts.max_items # 0 /\ Len(ps.items) = opts.max_items)
    /\ \A k \in 1..Len(page) :
         (StubValid(k) /\ k < ps.i) => (k \in Fetched /\ (StubFresh(k) => Emitted(k)))
    /\ IF \E k \in Fetched : StubBelow(k)
       THEN ps.stale_trigger = Some(MarkerOf(FirstBelowFetched))
       ELSE IsNone(ps.stale_trigger)

\* two stale results with different markers were met, and the fresh result
\* after them was emitted
C5_Witness ==
  /\ Parsing /\ ~opts.stop_at_stale /\ ps.status = "returned"
  /\ Len(page) = 3
  /\ StubBelow(1) /\ StubBelow(2) /\ MarkerOf(1) # MarkerOf(2)
  /\ StubFresh(3) /\ Emitted(3)
  /\ ps.stale_trigger = Some(MarkerOf(1))

\* the detail fetch of result k raises
StubFetchFails(k) == StubValid(k) /\ ~page[k].detail.ok

\* C13: a result whose detail fetch raised is fetched once, is not emitted
\* and is not the stale marker; parse_listings goes on to the next result
\* and does not raise or return because of it, and detail pages are
\* requested in page order, each at most once.
C13_FailedFetchDegradesOneStub ==
  Parsing =>
    /\ \A a, b \in 1..Len(ps.fetched) : a < b => ps.fetched[a] < ps.fetched[b]
    /\ \A k \in Fetched : StubFetchFails(k) =>
          /\ ~Emitted(k)
          /\ ps.i > k
          /\ ps.stale_trigger # Some([title |-> page[k].title, url |-> StubUrl(k),
                                      reference |-> isoformat(Dt(0, 0))])
          /\ (ps.status = "returned" /\ ps.fetched[Len(ps.fetched)] = k)
                => ps.i > Len(page)

\* with stop_at_stale the first result's fetch raised, and the result after
\* it was fetched and emitted
C13_Witness ==
  /\ ps.status = "returned" /\ opts.stop_at_stale
  /\ Len(page) >= 2 /\ StubFetchFails(1)
  /\ ps.fetched = <<1, 2>>
  /\ Emitted(2) /\ ~Emitted(1)
  /\ IsNone(ps.stale_trigger)

\* the item parse_listings emitted for result k
EmittedItem(k) == CHOOSE it \in Range(ps.items) : it.url = StubUrl(k)

\* C19: the reference time of an emitted listing is the later of the
\* posted and updated times its detail page shows: their maximum when both
\* are shown, the one shown when only one is.
C19_ReferenceIsLatest ==
  Parsing =>
    \A k \in 1..Len(page) : Emitted(k) =>
      LET p == page[k].detail.posted_at
          u == page[k].detail.updated_at
          r == EmittedItem(k).posted_at
      IN /\ page[k].detail.ok
         /\ ~IsNone(r)
         /\ (~IsNone(p) /\ ~IsNone(u)) =>
               /\ r \in {p, u}
               /\ ~DtLess(Get(r), Get(p)) /\ ~DtLess(Get(r), Get(u))
         /\ (~IsNone(p) /\ IsNone(u)) => r = p
         /\ (IsNone(p) /\ ~IsNone(u)) => r = u

\* emitted: a result updated before it was posted, one updated after, and
\* one that shows only an updated time
C19_Witness ==
  /\ ps.status = "returned"
  /\ \E a, b, c \in 1..Len(page) :
       /\ Emitted(a) /\ Emitted(b) /\ Emitted(c)
       /\ ~IsNone(page[a].detail.updated_at) /\ ~IsNone(page[a].detail.posted_at)
       /\ DtLess(Get(page[a].detail.updated_at), Get(page[a].detail.posted_at))
       /\ EmittedItem(a).posted_at = page[a].detail.posted_at
       /\ ~IsNone(page[b].detail.updated_at) /\ ~IsNone(page[b].detail.posted_at)
       /\ DtLess(Get(page[b].detail.posted_at), Get(page[b].detail.updated_at))
       /\ EmittedItem(b).posted_at = page[b].detail.updated_at
       /\ IsNone(page[c].detail.posted_at)
       /\ EmittedItem(c).posted_at = page[c].detail.updated_at

\* C20 as claimed: a fetched result without reference time is a stale
\* encounter: a stale marker is recorded once it was met, and with
\* stop_at_stale no later result is fetched.
C20_UndatedIsStaleEncounter ==
  Parsing =>
    \A k \in Fetched : StubUndated(k) =>
      /\ ~IsNone(ps.stale_trigger)
      /\ opts.stop_at_stale => \A j \in Fetched : j <= k

\* C20 as amended: a fetched result without reference time is skipped: it
\* is not emitted, it is never the stale marker (the marker, if any, is
\* that of a fetched below-cutoff result), and for both values of
\* stop_at_stale the loop goes on to the next result.
C20_UndatedIsSkipped ==
  Parsing =>
    /\ \A k \in Fetched : StubUndated(k) =>
          /\ ~Emitted(k)
          /\ ps.i > k
          /\ (ps.status = "returned" /\ ps.fetched[Len(ps.fetched)] = k)
                => ps.i > Len(page)
    /\ ~IsNone(ps.stale_trigger) =>
          \E j \in Fetched : StubBelow(j) /\ ps.stale_trigger = Some(MarkerOf(j))
    /\ (IsNone(ps.stale_trigger) /\ opts.stop_at_stale /\ ps.status = "scanning")
          => Fetched = {k \in 1..(ps.i - 1) : StubValid(k)}

\* with stop_at_stale a result whose detail page shows no time was fetched
\* first, no marker was recorded, and the result after it was emitted
C20_Witness ==
  /\ ps.status = "returned" /\ opts.stop_at_stale
  /\ Len(page) >= 2
  /\ StubUndated(1) /\ page[1].detail.ok
  /\ ps.fetched = <<1, 2>>
  /\ Emitted(2)
  /\ IsNone(ps.stale_trigger)

\* C21: with a positive max_items parse_listings never holds more than
\* max_items listings, and once it holds max_items it has returned: the
\* last detail page requested is that of the last listing emitted.
C21_CapHaltsEnumeration ==
  (Parsing /\ opts.max_items > 0) =>
    /\ Len(ps.items) <= opts.max_items
    /\ Len(ps.items) = opts.max_items =>
          /\ ps.status = "returned"
          /\ ps.items[Len(ps.items)].url = StubUrl(ps.fetched[Len(ps.fetched)])
          /\ ps.i = ps.fetched[Len(ps.fetched)]

\* the cap was reached at the second result and a valid third one was
\* never fetched
C21_Witness ==
  /\ ps.status = "returned" /\ opts.max_items = MaxCap
  /\ Len(ps.items) = MaxCap
  /\ Len(page) > ps.i /\ StubValid(Len(page))
  /\ Len(page) \notin Fetched
  /\ IsNone(ps.stale_trigger)

\* the price text of result k, stripped of all but digits and dots, is
\* neither empty nor a number
StubPriceUnparsable(k) ==
  /\ ~IsNone(page[k].price_text)
  /\ StripNonDigitDot(Get(page[k].price_text)) # <<>>
  /\ ~FloatParses(StripNonDigitDot(Get(page[k].price_text)))

\* C23: parse_listings does not raise on a price text: a valid result
\* whose price text is absent, empty after stripping or not a number has
\* been passed by the loop, and if it was emitted it has no price.
C23_UnparsablePriceYieldsNoPrice ==
  Parsing =>
    /\ ps.status # "raised"
    /\ \A k \in 1..Len(page) :
         (StubValid(k) /\ StubPriceUnparsable(k) /\ Emitted(k))
           => IsNone(EmittedItem(k).price)

\* the page position of the result the a-th emitted listing came from
SourceOf(a) == CHOOSE k \in 1..Len(page) : StubValid(k) /\ StubUrl(k) = ps.items[a].url

\* C25: parse_listings passes over the page once: detail pages are
\* requested in page order, each at most once, only for results with a
\* link and a numeric id, and for every such result before the last one
\* requested; the emitted listings are fetched results in page order.
C25_OneSequentialPass ==
  Parsing =>
    /\ \A a, b \in 1..Len(ps.fetched) : a < b => ps.fetched[a] < ps.fetched[b]
    /\ \A k \in Fetched :
         /\ k \in 1..Len(page) /\ StubValid(k)
         /\ k <= ps.i
         /\ \A j \in 1..(k - 1) : StubValid(j) => j \in Fetched
    /\ \A a \in 1..Len(ps.items) :
         /\ \E k \in Fetched : StubUrl(k) = ps.items[a].url
         /\ SourceOf(a) \in Fetched
         /\ ps.items[a].title = page[SourceOf(a)].title
    /\ \A a, b \in 1..Len(ps.items) : a < b => SourceOf(a) < SourceOf(b)

\* a result without link and one without numeric id were passed without a
\* request, and the result after them was fetched and emitted
C25_Witness ==
  /\ ps.status = "returned" /\ Len(page) = 3
  /\ IsNone(page[1].href)
  /\ ~IsNone(page[2].href) /\ ~StubValid(2)
  /\ ps.fetched = <<3>>
  /\ Len(ps.items) = 1 /\ SourceOf(1) = 3

---------------------------------------------------------------------------
(* Properties of filter_items and describe_rejection.                      *)

\* which keyword tables match a title and description: some keyword is a
\* substring of the lowered "title description" text
Lowered(text) == [k \in 1..Len(text) |-> LowerChar(text[k])]
TextOf(title, description) ==
  title \o <<" ">> \o (IF IsNone(description) THEN <<>> ELSE Get(description))
TextMatches(text, keywords) ==
  \E j \in 1..Len(keywords) : Contains(text, keywords[j])
ClaimTexts ==
  { <<title, description>> :
      title \in {Str_FreeMattress, Str_BoxesAndMattress, Str_FillDirt, Str_OldJunk},
      description \in {None, Some(Str_PlusTV)} }
KeywordOracle ==
  LET hit(td) == LET text == Lowered(TextOf(td[1], td[2]))
                 IN <<TextMatches(text, EXCLUDE_KEYWORDS),
                      TextMatches(text, INCLUDE_KEYWORDS)>>
  IN { <<td, hit(td)>> : td \in ClaimTexts }
OracleOf(item) ==
  (CHOOSE e \in KeywordOracle : e[1] = <<item.title, item.description>>)[2]
MatchesExclude(item) == OracleOf(item)[1]
MatchesInclude(item) == OracleOf(item)[2]

\* the reference time is present and not older than now - 7 days
FreshAt(item, now) ==
  /\ ~IsNone(item.posted_at)
  /\ ~DtLess(Get(item.posted_at), Dt(now.t - MaxItemAgeDays, now.us))

ShouldKeep(item, now) ==
  /\ FreshAt(item, now)
  /\ ~MatchesExclude(item)
  /\ MatchesInclude(item)

StaleKinds == {"missing posted date", "posted (older than 7 days)"}

\* the kind of reason the priority stale, excluded, no match gives
ReasonKindAt(item, now) ==
  IF ~FreshAt(item, now)
  THEN IF IsNone(item.posted_at) THEN "missing posted date"
       ELSE "posted (older than 7 days)"
  ELSE IF MatchesExclude(item) THEN "excluded keywords"
  ELSE IF ~MatchesInclude(item) THEN "no matching keywords"
  ELSE "kept"

DroppedItems == [k \in 1..Len(fin.dropped) |-> fin.dropped[k].item]

\* C6: filter_items keeps exactly the listings that are fresh at its now,
\* match no exclude keyword and match an include keyword, and drops the
\* others; the reason describe_rejection gives for a dropped listing is the
\* first that applies of stale, excluded keywords, no matching keywords; a
\* listing matching an exclude and an include keyword is never kept and,
\* when it is not stale, its reason is the excluded-keywords one.
C6_KeepRuleAndReasonPriority ==
  /\ fin.phase # "idle" =>
       /\ fin.kept = SelectSeq(fin.items, LAMBDA it : ShouldKeep(it, fin.now))
       /\ DroppedItems = SelectSeq(fin.items, LAMBDA it : ~ShouldKeep(it, fin.now))
       /\ \A k \in 1..Len(fin.items) :
            (MatchesExclude(fin.items[k])
               /\ MatchesInclude(fin.items[k]))
            => (fin.items[k] \notin Range(fin.kept)
                  /\ fin.items[k] \in Range(DroppedItems))
  /\ fin.phase = "described" => Len(fin.reasons) = Len(fin.dropped)
  /\ \A k \in 1..Len(fin.reasons) :
       /\ fin.reasons[k].kind = ReasonKindAt(fin.dropped[k].item, fin.described_at[k])
       /\ fin.reasons[k].kind # "kept"
       /\ (MatchesExclude(fin.dropped[k].item)
             /\ FreshAt(fin.dropped[k].item, fin.described_at[k]))
          => (fin.reasons[k].kind = "excluded keywords"
                /\ fin.reasons[k].detail # <<>>)

\* a fresh listing matching "moving boxes" and "mattress" was dropped with
\* the excluded-keywords reason, next to a kept one
C6_Witness ==
  /\ fin.phase = "described"
  /\ Len(fin.kept) = 1 /\ Len(fin.dropped) = 1
  /\ fin.dropped[1].item.title = Str_BoxesAndMattress
  /\ FreshAt(fin.dropped[1].item, fin.described_at[1])
  /\ MatchesInclude(fin.dropped[1].item)
  /\ fin.reasons[1].kind = "excluded keywords"

\* C18: a listing whose reference time is absent or older than the
\* threshold at the filter's now is dropped, not kept, and the reason
\* describe_rejection gives for it is one of the two stale reasons,
\* whichever include or exclude keywords its title and description match.
C18_StaleAlwaysDroppedAsStale ==
  /\ fin.phase # "idle" =>
       \A k \in 1..Len(fin.items) : ~FreshAt(fin.items[k], fin.now) =>
         /\ fin.items[k] \notin Range(fin.kept)
         /\ fin.items[k] \in Range(DroppedItems)
  /\ \A j \in 1..Len(fin.reasons) : ~FreshAt(fin.dropped[j].item, fin.now) =>
       /\ fin.reasons[j].kind \in StaleKinds
       /\ fin.reasons[j].kind = "missing posted date"
             <=> IsNone(fin.dropped[j].item.posted_at)

\* an undated listing matching an exclude keyword and a listing too old by
\* a sub-second matching only include keywords both got a stale reason
C18_Witness ==
  /\ fin.phase = "described"
  /\ \E a, b \in 1..Len(fin.dropped) :
       /\ IsNone(fin.dropped[a].item.posted_at)
       /\ MatchesExclude(fin.dropped[a].item)
       /\ fin.reasons[a].kind = "missing posted date"
       /\ ~IsNone(fin.dropped[b].item.posted_at)
       /\ ~FreshAt(fin.dropped[b].item, fin.now)
       /\ MatchesInclude(fin.dropped[b].item) /\ ~MatchesExclude(fin.dropped[b].item)
       /\ fin.reasons[b].kind = "posted (older than 7 days)"

\* C26: filter_items partitions its input: kept and the items of dropped
\* are disjoint, each is the input restricted to it (so both keep the input
\* order and nothing is lost or added), every dropped outcome is that of
\* its item, and the two lengths add up to the input's.
C26_FilterPartitions ==
  fin.phase # "idle" =>
    /\ Len(fin.kept) + Len(fin.dropped) = Len(fin.items)
    /\ Range(fin.kept) \cap Range(DroppedItems) = {}
    /\ fin.kept = SelectSeq(fin.items, LAMBDA it : it \in Range(fin.kept))
    /\ DroppedItems = SelectSeq(fin.items, LAMBDA it : it \in Range(DroppedItems))
    /\ \A k \in 1..Len(fin.dropped) :
         fin.dropped[k] = evaluate_item(fin.dropped[k].item)

\* of two different listings the first, undated, was dropped and the
\* second kept
C26_Witness ==
  /\ fin.phase = "filtered" /\ Len(fin.items) = 2
  /\ fin.items[1] # fin.items[2]
  /\ IsNone(fin.items[1].posted_at)
  /\ fin.kept = <<fin.items[2]>>
  /\ DroppedItems = <<fin.items[1]>>

\* the reasons describe_rejection can give for a dropped listing
DropKinds == StaleKinds \cup {"excluded keywords", "no matching keywords"}

\* C28: describe_rejection, called at or after the time of filter_items on
\* an outcome filter_items dropped, gives a stale reason, the
\* excluded-keywords reason or "no matching keywords", never "kept".
C28_DroppedNeverDescribedKept ==
  \A k \in 1..Len(fin.reasons) :
    /\ DtGeq(fin.described_at[k], fin.now)
    /\ fin.reasons[k].kind \in DropKinds
    /\ fin.reasons[k].kind # "kept"

\* a listing fresh when it was dropped for its keywords was described a day
\* later, by then stale, next to an undated one matching include keywords
C28_Witness ==
  /\ fin.phase = "described"
  /\ \E a, b \in 1..Len(fin.dropped) :
       /\ fin.described_at[a].t > fin.now.t
       /\ FreshAt(fin.dropped[a].item, fin.now)
       /\ ~FreshAt(fin.dropped[a].item, fin.described_at[a])
       /\ fin.reasons[a].kind = "posted (older than 7 days)"
       /\ IsNone(fin.dropped[b].item.posted_at)
       /\ MatchesInclude(fin.dropped[b].item) /\ ~MatchesExclude(fin.dropped[b].item)
       /\ fin.reasons[b].kind = "missing posted date"

---------------------------------------------------------------------------
(* Properties of upsert_items and purge_stale_items.                       *)

ArgIds == {st.arg[k].id : k \in 1..Len(st.arg)}

\* the listing of the call's argument that is written last for an id
LastFor(id) ==
  st.arg[CHOOSE k \in 1..Len(st.arg) :
           st.arg[k].id = id /\ \A j \in (k + 1)..Len(st.arg) : st.arg[j].id # id]

\* the instant an ISO text of the store denotes
ClaimTimes == {Dt(t, us) : t \in 0..(MaxClock + 1), us \in Micros}
TimeOfText(text) == CHOOSE d \in ClaimTimes : isoformat(d) = text

\* every attribute of the stored row is the listing's, unset ones included
RowIsListing(row, item) ==
  /\ row.id = item.id
  /\ row.title = item.title
  /\ row.url = item.url
  /\ row.source = item.source
  /\ row.description = item.description
  /\ row.location = item.location
  /\ row.price = item.price
  /\ IsNone(row.posted_at) = IsNone(item.posted_at)
  /\ ~IsNone(row.posted_at) => TimeOfText(Get(row.posted_at)) = Get(item.posted_at)

RowCount(table) == Cardinality(DOMAIN table)

\* C3: when upsert_items is called a second time with the listings of the
\* call before it, the row count after it equals the row count after the
\* first call, and every listed id's row holds the second call's input.
C3_UpsertIdempotent ==
  (st.op = "upsert" /\ st.repeat /\ ~st.raised) =>
    /\ RowCount(db) = RowCount(st.pre)
    /\ \A id \in ArgIds : id \in DOMAIN db /\ RowIsListing(db[id], LastFor(id))

\* a repeated call with two listings on a table that held other rows
C3_Witness ==
  /\ st.op = "upsert" /\ st.repeat /\ ~st.raised
  /\ Len(st.arg) = 2 /\ Cardinality(ArgIds) = 2
  /\ RowCount(db) = 2 /\ st.ret = 2

\* C7: after upsert_items, the row of an id that was already stored holds
\* every attribute of the new listing, unset ones included: a stored price
\* of 0 followed by a listing without price leaves the price null.
C7_FullRowReplace ==
  (st.op = "upsert" /\ ~st.raised) =>
    \A id \in ArgIds \cap DOMAIN st.pre :
      /\ db[id].title = LastFor(id).title
      /\ db[id].url = LastFor(id).url
      /\ db[id].source = LastFor(id).source
      /\ db[id].description = LastFor(id).description
      /\ db[id].location = LastFor(id).location
      /\ db[id].price = LastFor(id).price
      /\ IF IsNone(LastFor(id).posted_at) THEN IsNone(db[id].posted_at)
         ELSE db[id].posted_at = Some(isoformat(Get(LastFor(id).posted_at)))
      /\ (st.pre[id].price = Some(Zero) /\ IsNone(LastFor(id).price))
           => IsNone(db[id].price)

\* the stored price was 0, the new listing of that id has none, and the
\* row's price is now null while its other attributes changed too
C7_Witness ==
  /\ st.op = "upsert" /\ ~st.raised
  /\ \E id \in ArgIds \cap DOMAIN st.pre :
       /\ st.pre[id].price = Some(Zero)
       /\ IsNone(LastFor(id).price)
       /\ IsNone(db[id].price)
       /\ db[id].title # st.pre[id].title

\* C8: after upsert_items either no row raised and every listing of the
\* call is stored, or the write raised at some row and the table is the
\* table of before the call.
C8_UpsertAtomic ==
  st.op = "upsert" =>
    /\ st.raised = (st.fail_at # 0)
    /\ IF st.raised THEN db = st.pre
       ELSE \A k \in 1..Len(st.arg) :
              /\ st.arg[k].id \in DOMAIN db
              /\ db[st.arg[k].id].title = LastFor(st.arg[k].id).title

\* the second row raised after the first row had inserted a new id
C8_Witness ==
  /\ st.op = "upsert" /\ st.raised /\ st.fail_at = 2
  /\ st.arg[1].id \notin DOMAIN st.pre
  /\ db = st.pre

\* the rows purge must delete: no reference time, or one before now - 7 days
PurgeDue(table, now) ==
  { id \in DOMAIN table :
      \/ IsNone(table[id].posted_at)
      \/ DtLess(TimeOfText(Get(table[id].posted_at)),
                Dt(now.t - MaxItemAgeDays, now.us)) }

\* C9: purge_stale_items deletes exactly the rows whose reference time is
\* null or older than now - max_age, leaves the others as they were and
\* returns the number deleted; a purge directly after a purge deletes none.
C9_PurgeExactAndIdempotent ==
  (st.op = "purge" /\ ~st.raised) =>
    /\ DOMAIN db = DOMAIN st.pre \ PurgeDue(st.pre, st.now)
    /\ \A id \in DOMAIN db : db[id] = st.pre[id]
    /\ st.ret = Cardinality(PurgeDue(st.pre, st.now))
    /\ st.repeat => (st.ret = 0 /\ db = st.pre)

\* a purge directly after a purge, on a table that still holds a row dated
\* at the cutoff second
C9_Witness ==
  /\ st.op = "purge" /\ ~st.raised /\ st.repeat
  /\ st.ret = 0
  /\ \E id \in DOMAIN db : db[id].posted_at = Some(isoformat(StampEdge))


---------------------------------------------------------------------------
(* Claims about crawl_once (SpecCrawl).                                    *)

\* the channels the arguments of the crawl configure
Configured(c) ==
  { ch \in Range(Channels) :
      \/ ch = "slack" /\ c.webhook
      \/ ch = "sms" /\ c.sms_config
      \/ ch = "email" /\ c.email_config
      \/ ch = "ntfy" /\ c.ntfy_topic }

\* crawl_once has returned or raised
CrawlEnded == cr.pc \in {"done", "raised"}

\* C2: when a crawl has ended and the send of one configured channel
\* raised, every other configured channel was attempted in that crawl.
C2_ChannelFailureIsolated ==
  CrawlEnded =>
    \A c1 \in cr.failed : \A c2 \in Configured(cr) \ {c1} :
      c2 \in Range(cr.attempted)

\* a send is being made or was made in this crawl
Notifying == cr.pc \in Range(Channels) \/ cr.attempted # <<>>

\* C10: a channel send is attempted only after the purge and the upsert of
\* the same crawl returned, with every kept listing stored; a crawl that a
\* storage error ended attempted no send.
C10_NotifyAfterPersistence ==
  /\ Notifying =>
       /\ cr.opened /\ cr.purged /\ cr.upserted
       /\ cr.error # "storage"
       /\ cr.inserted = Len(cr.kept)
       /\ \A k \in 1..Len(cr.kept) : cr.kept[k].id \in DOMAIN db
  /\ cr.error = "storage" => (cr.attempted = <<>> /\ cr.pc = "raised")

\* the second crawl sent on two channels after its purge deleted nothing
\* new and its upsert replaced the row of the first crawl
C10_Witness ==
  /\ cr.pc = "done" /\ cr.n = 2
  /\ Len(cr.attempted) = 2
  /\ cr.purged /\ cr.upserted /\ cr.inserted = 1
  /\ cr.kept[1].id \in DOMAIN db

\* C11: from the return of the crawl's upsert_items to the end of the
\* crawl, whatever each channel send did, the table is the table that
\* upsert committed.
C11_SendsKeepStore ==
  (cr.upserted /\ (cr.pc \in Range(Channels) \/ CrawlEnded)) =>
    db = Get(cr.committed)

\* a send raised after another was made, and the listing the crawl stored
\* is still in the table
C11_Witness ==
  /\ cr.pc = "raised" /\ cr.failed # {}
  /\ Len(cr.attempted) = 2
  /\ cr.kept # <<>> /\ cr.kept[1].id \in DOMAIN db
  /\ db = Get(cr.committed)

\* C12: a crawl whose fetch, parse, filter, purge and upsert succeeded
\* returns without raising, also when a channel send failed.
C12_SendFailureKeepsSuccess ==
  (CrawlEnded /\ cr.opened /\ cr.purged /\ cr.upserted) =>
    (cr.pc = "done" /\ cr.error = "none")

\* nothing of the crawl touched the store or a channel
NoStoreNoSend ==
  /\ ~cr.opened /\ ~cr.purged /\ ~cr.upserted
  /\ IsNone(cr.committed) /\ cr.inserted = 0
  /\ cr.attempted = <<>> /\ cr.failed = {}

\* C14: a crawl that can_fetch refused has raised before get_html was
\* called: no search page and no detail page was requested, the store was
\* not opened, purged or written, and no channel was attempted.
C14_PolicyDenialStopsCrawl ==
  cr.error = "policy" =>
    /\ cr.pc = "raised"
    /\ ~cr.searched /\ cr.details = 0
    /\ cr.items = <<>> /\ cr.kept = <<>>
    /\ NoStoreNoSend

\* the second crawl was refused, on a database the first crawl had filled
C14_Witness ==
  /\ cr.error = "policy" /\ cr.pc = "raised" /\ cr.n = 2
  /\ ~cr.searched
  /\ db # EmptyTable

\* C15: a dry-run crawl fetched the search page, parsed and filtered it,
\* and then only reports: it never opens, purges or writes the store and
\* attempts no channel, whatever was kept or dropped; its report gives one
\* reason per dropped listing.
C15_DryRunTouchesNothing ==
  cr.dry_run =>
    /\ cr.pc \in {"dry", "done"}
    /\ cr.error = "none"
    /\ cr.searched
    /\ NoStoreNoSend
    /\ cr.pc = "done" => Len(cr.reasons) = Len(cr.dropped)

\* a dry run that kept a listing and dropped another, on a database an
\* earlier crawl had filled
C15_Witness ==
  /\ cr.dry_run /\ cr.pc = "done" /\ cr.n = 2
  /\ cr.kept # <<>> /\ cr.dropped # <<>>
  /\ Len(cr.reasons) = Len(cr.dropped)
  /\ db # EmptyTable

\* C16: a crawl whose search-page fetch raised has ended with that error:
\* no detail page was requested, nothing was parsed or kept, the store was
\* not opened, purged or written, and no channel was attempted.
C16_SearchFailureIsFatal ==
  cr.error = "transport" =>
    /\ cr.pc = "raised"
    /\ cr.searched /\ cr.details = 0
    /\ cr.items = <<>> /\ cr.kept = <<>>
    /\ NoStoreNoSend

\* the search of the second crawl failed, on a database the first had filled
C16_Witness ==
  /\ cr.error = "transport" /\ cr.pc = "raised" /\ cr.n = 2
  /\ cr.searched /\ cr.details = 0
  /\ db # EmptyTable

\* the kept listings of the crawl have ids of their own
KeptIdsDistinct ==
  \A a, b \in 1..Len(cr.kept) : cr.kept[a].id = cr.kept[b].id => a = b

\* C17: the count the notification summary reports is the number of kept
\* listings whose id was not in the store before the crawl's upsert, so a
\* listing an earlier crawl stored is not announced as new again.
C17_SummaryCountsNewRows ==
  (cr.upserted /\ Notifying /\ KeptIdsDistinct) => cr.inserted = cr.new_rows

\* the kept listing of the crawl that upsert_items writes last for an id
LastKept(id) ==
  cr.kept[CHOOSE k \in 1..Len(cr.kept) :
            cr.kept[k].id = id /\ \A j \in (k + 1)..Len(cr.kept) : cr.kept[j].id # id]

\* C27: once the upsert of a crawl has returned, every listing the filter
\* kept in that crawl is stored under its id with the crawl's values, the
\* rows of the kept ids have a reference time, and every row of the table
\* is the one row of its own id.
C27_KeptListingsAreStored ==
  (cr.upserted /\ ~cr.dry_run) =>
    /\ \A k \in 1..Len(cr.kept) :
         /\ cr.kept[k].id \in DOMAIN db
         /\ RowIsListing(db[cr.kept[k].id], LastKept(cr.kept[k].id))
         /\ ~IsNone(db[cr.kept[k].id].posted_at)
    /\ \A id \in DOMAIN db : db[id].id = id

\* the second crawl returned after it kept the listing twice, without and
\* with price, on a table that held it: one row, with the values kept last
C27_Witness ==
  /\ cr.pc = "done" /\ cr.n = 2 /\ cr.upserted /\ cr.new_rows = 0
  /\ Len(cr.kept) = 2 /\ cr.kept[1] # cr.kept[2]
  /\ cr.kept[1].id = cr.kept[2].id
  /\ RowCount(db) = 1
  /\ db[cr.kept[2].id].price = cr.kept[2].price
  /\ db[cr.kept[2].id].location = cr.kept[2].location

---------------------------------------------------------------------------
(* Claims on the sleep range of the detail resolver and on the settings of *)
(* main, under SpecConfig.                                                 *)

ResolverCalled == cf.pc # "idle" /\ Get(cf.call).op = "resolve"
MainCalled == cf.pc # "idle" /\ Get(cf.call).op = "main"

\* the SMS settings that main sees as set, from option or environment
SmsPresent ==
  {name \in SmsSettings : Truthy(SmsValues(Get(cf.call).args, Get(cf.call).env)[name])}

\* C22: a call of the detail resolver whose sleep range has low < 0 or
\* high < low ends in an error, with no request made and no timestamps
\* returned, present or absent.
C22_BadRangeRaisesBeforeRequest ==
  (/\ ResolverCalled
   /\ RangeTruthy(Get(cf.call).sleep_range)
   /\ RangeInvalid(Get(Get(cf.call).sleep_range)))
    => /\ Get(cf.out).raised
       /\ Get(cf.out).requests = 0
       /\ IsNone(Get(cf.out).times)

\* C24: a run of main in which some but not all of the four SMS settings
\* are set ends in an error before crawl_once is called, and a run that
\* calls crawl_once has none of the four set or all of them.
C24_SmsAllOrNothing ==
  MainCalled =>
    /\ (SmsPresent \notin {{}, SmsSettings}) =>
         (Get(cf.out).raised # "none" /\ ~Get(cf.out).crawl_called)
    /\ Get(cf.out).crawl_called => SmsPresent \in {{}, SmsSettings}
=============================================================================
